---- MODULE Spec2Model ----
(***************************************************************************)
(* kayouba/f1-analysis: the season simulator (create_realistic_data), the  *)
(* collection loop (collect_f1_data_recent) and the dashboard and report   *)
(* metrics, as state machines.                                             *)
(*                                                                         *)
(* Numbers.  The code works in binary floating point; the model works in   *)
(* exact integers.  Team ratings are the source's two-decimal values in    *)
(* hundredths (0.95 is 95), scores are in thousandths and race scores in   *)
(* 1/100000.  Rates are kept as exact fractions num/den.                  *)
(*                                                                         *)
(* Randomness.  Python's module-level generator (random.seed,              *)
(* random.random, random.uniform, ...) is one hidden state shared by the   *)
(* whole process.  It is modelled as a linear congruential generator whose *)
(* state is the variable rng: a draw advances rng and returns a value that *)
(* is a function of the new state.  The increment (the variable gen) is    *)
(* chosen once, initially, so every property is checked over a family of   *)
(* streams and not one.                                                    *)
(***************************************************************************)
EXTENDS Integers, Sequences, FiniteSets, TLC

VARIABLES
    rng,        \* state of the module-level random generator
    gen,        \* which generator of the family this run uses (never changes)
    mode,       \* which part of the program this behaviour runs
    firstOut,   \* simulator: year -> output of the first call (<<>> before)
    lastOut,    \* simulator: year -> output of the latest call
    ncalls,     \* simulator: year -> number of calls made
    disturbed,  \* simulator: year -> the generator was used by something
                \*            else since that year's first call
    draws,      \* simulator: number of such other uses so far
    all_data,   \* collection: the list the loop appends to
    yi,         \* collection: index into years of the iteration to run next
    cpc,        \* collection: "loop", "done" (df returned) or "raised"
    df,         \* collection: the data frame built after the loop
    fetched,    \* collection: year -> "none", "ok" or "failed" (what the live
                \*             fetch of that year came to)
    lost,       \* collection: the results of a race that the last iteration
                \*             did not append, a conversion having raised
    csv,        \* metrics: the rows of data/raw/f1_results_2023_2025.csv
    report,     \* metrics: what the dashboard last computed, or NotRun
    areport,    \* metrics: what the analysis script last computed, or NotRun
    shuffles,   \* metrics: number of reorderings of the rows so far
    wst         \* workers: worker -> the position of its create_realistic_data

simVars == <<firstOut, lastOut, ncalls, disturbed, draws>>
colVars == <<all_data, yi, cpc, df, fetched, lost>>
metVars == <<csv, report, areport, shuffles>>
parVars == <<wst>>
vars == <<rng, gen, mode, simVars, colVars, metVars, parVars>>

(***************************************************************************)
(* Bounds of the model                                                     *)
(***************************************************************************)
RngMod == 1024
RngMult == 5
MaxGen == 2
MaxCalls == 3
MaxDraws == 1
MaxLiveRaces == 1
MaxLiveResults == 2

(***************************************************************************)
(* random: the module-level generator                                      *)
(***************************************************************************)
Gens == {2 * k + 1 : k \in 0..(MaxGen - 1)}

NextRng(s) == (RngMult * s + gen) % RngMod

SeedStateKept(n, cur) == cur

\* random.seed(n)
SeedState(n, cur) == n % RngMod

\* random.uniform(a, b) == a + (b - a) * random(), on integers a < b
Uniform(a, b, v) == a + ((b - a) * v) \div RngMod

\* random.random() < p, p in hundredths
Below(v, p) == v * 100 < p * RngMod

\* random.randint(a, b)
RandInt(a, b, v) == a + ((b - a + 1) * v) \div RngMod

\* random.choice(seq)
Choice(seq, v) == seq[1 + (Len(seq) * v) \div RngMod]

(***************************************************************************)
(* create_realistic_data: configuration                                    *)
(***************************************************************************)
Team(n, s, r, d) == [name |-> n, strength |-> s, reliability |-> r, drivers |-> d]

\* team_performance for year 2023
TeamPerformance2023 ==
    << Team("Red Bull", 95, 98, <<"Verstappen", "Perez">>),
       Team("Mercedes", 85, 95, <<"Hamilton", "Russell">>),
       Team("Ferrari", 83, 90, <<"Leclerc", "Sainz">>),
       Team("McLaren", 78, 93, <<"Norris", "Piastri">>),
       Team("Alpine F1 Team", 75, 88, <<"Ocon", "Gasly">>),
       Team("Aston Martin", 82, 92, <<"Alonso", "Stroll">>),
       Team("Alfa Romeo", 70, 85, <<"Bottas", "Zhou">>),
       Team("Haas F1 Team", 68, 83, <<"Magnussen", "Hulkenberg">>),
       Team("AlphaTauri", 72, 86, <<"Tsunoda", "de Vries">>),
       Team("Williams", 65, 80, <<"Albon", "Sargeant">>) >>

\* team_performance for year 2024
TeamPerformance2024 ==
    << Team("Red Bull", 92, 97, <<"Verstappen", "Perez">>),
       Team("McLaren", 89, 95, <<"Norris", "Piastri">>),
       Team("Ferrari", 87, 93, <<"Leclerc", "Sainz">>),
       Team("Mercedes", 86, 96, <<"Hamilton", "Russell">>),
       Team("Aston Martin", 78, 91, <<"Alonso", "Stroll">>),
       Team("RB", 74, 88, <<"Ricciardo", "Tsunoda">>),
       Team("Alpine F1 Team", 72, 87, <<"Ocon", "Gasly">>),
       Team("Haas F1 Team", 70, 85, <<"Magnussen", "Hulkenberg">>),
       Team("Williams", 68, 82, <<"Albon", "Colapinto">>),
       Team("Sauber", 66, 84, <<"Bottas", "Zhou">>) >>

\* team_performance for any other year (the else branch, "2025")
TeamPerformance2025 ==
    << Team("McLaren", 91, 96, <<"Norris", "Piastri">>),
       Team("Ferrari", 90, 94, <<"Hamilton", "Leclerc">>),
       Team("Red Bull", 88, 96, <<"Verstappen", "Lawson">>),
       Team("Mercedes", 85, 95, <<"Russell", "Antonelli">>),
       Team("Aston Martin", 80, 92, <<"Alonso", "Stroll">>),
       Team("Alpine F1 Team", 76, 89, <<"Gasly", "Doohan">>),
       Team("RB", 73, 88, <<"Tsunoda", "Hadjar">>),
       Team("Haas F1 Team", 72, 86, <<"Ocon", "Bearman">>),
       Team("Williams", 69, 84, <<"Sainz", "Albon">>),
       Team("Sauber", 67, 85, <<"Hulkenberg", "Bortoleto">>) >>

team_performance(year) ==
    IF year = 2023 THEN TeamPerformance2023
    ELSE IF year = 2024 THEN TeamPerformance2024
    ELSE TeamPerformance2025

\* the simulated calendar: the list literal has eight entries
RaceNames ==
    << "Bahrain Grand Prix", "Saudi Arabian Grand Prix", "Australian Grand Prix",
       "Japanese Grand Prix", "Chinese Grand Prix", "Miami Grand Prix",
       "Emilia Romagna Grand Prix", "Monaco Grand Prix" >>

FullSeasonSlice == 23
PartialSeasonSlice == 8

Min(a, b) == IF a < b THEN a ELSE b

\* races[:23] for a year before 2025, races[:8] otherwise
races(year) ==
    SubSeq(RaceNames, 1,
           Min(Len(RaceNames), IF year < 2025 THEN FullSeasonSlice ELSE PartialSeasonSlice))

points_system == <<25, 18, 15, 12, 10, 8, 6, 4, 2, 1>>

DnfStatuses == <<"Engine", "Collision", "Hydraulics", "Gearbox">>

DnfPosition == 99

\* round_num in [3, 6, 11, 18, 21, 23] if year < 2025 else round_num in [3, 6]
HasSprint(year, round_num) ==
    IF year < 2025 THEN round_num \in {3, 6, 11, 18, 21, 23} ELSE round_num \in {3, 6}

OvertakingDifficultyOfBaseline(year) == 70

\* overtaking_difficulty = 0.7 + (year - 2023) * 0.05, in hundredths
OvertakingDifficulty(year) == 70 + (year - 2023) * 5

(***************************************************************************)
(* create_realistic_data: the algorithm, one step per draw from the        *)
(* generator.  A step takes the function's local state st and the          *)
(* generator's state g and returns both, updated; everything the code does *)
(* between two draws belongs to the step of the draw before it.            *)
(***************************************************************************)
RECURSIVE AllDriversFrom(_, _)
\* the nested loop over team_performance.items() and data['drivers']
AllDriversFrom(teams, t) ==
    IF t > Len(teams) THEN <<>>
    ELSE [d \in 1..Len(teams[t].drivers) |->
             [name |-> teams[t].drivers[d], team |-> teams[t].name,
              strength |-> teams[t].strength, reliability |-> teams[t].reliability,
              quali_score |-> 0]]
         \o AllDriversFrom(teams, t + 1)

AllDriversAfterFirstTeam(teams) == AllDriversFrom(teams, 2)

AllDrivers(teams) == AllDriversFrom(teams, 1)

RECURSIVE InsertDescBeforeEquals(_, _, _)
InsertDescBeforeEquals(sorted, x, f) ==
    IF sorted = <<>> THEN <<x>>
    ELSE IF Head(sorted)[f] > x[f]
         THEN <<Head(sorted)>> \o InsertDescBeforeEquals(Tail(sorted), x, f)
         ELSE <<x>> \o sorted

RECURSIVE InsertDesc(_, _, _)
\* x goes behind every element whose key is at least its own
InsertDesc(sorted, x, f) ==
    IF sorted = <<>> THEN <<x>>
    ELSE IF Head(sorted)[f] >= x[f]
         THEN <<Head(sorted)>> \o InsertDesc(Tail(sorted), x, f)
         ELSE <<x>> \o sorted

RECURSIVE SortDesc(_, _)
\* list.sort(key=lambda x: x[f], reverse=True): descending and stable
SortDesc(s, f) ==
    IF s = <<>> THEN <<>>
    ELSE InsertDesc(SortDesc(SubSeq(s, 1, Len(s) - 1), f), s[Len(s)], f)

RECURSIVE IndexFrom(_, _, _)
IndexFrom(s, x, i) ==
    IF i > Len(s) THEN 0
    ELSE IF s[i] = x THEN i
    ELSE IndexFrom(s, x, i + 1)

QualiPosZeroBased(all_drivers, driver) == IndexFrom(all_drivers, driver, 1) - 1

\* all_drivers.index(driver) + 1
QualiPos(all_drivers, driver) == IndexFrom(all_drivers, driver, 1)

\* driver['quali_score'] = driver['strength'] + random.uniform(-0.15, 0.15), thousandths
QualiScore(driver, v) == driver.strength * 10 + Uniform(-150, 150, v)

\* quali_score * overtaking_difficulty + strength * (1 - overtaking_difficulty)
\*   + random.uniform(-0.1, 0.1), in 1/100000
RaceScore(driver, year, v) ==
    driver.quali_score * OvertakingDifficulty(year)
    + driver.strength * 10 * (100 - OvertakingDifficulty(year))
    + Uniform(-100, 100, v) * 100

\* 'race_score': -1 of a driver who did not finish, in 1/100000
DnfScore == -100000

\* if result['race_score'] > 0:  # Finished
Classified(result) == result.race_score > 0

PointsForBelowTen(position) == IF position < 10 THEN points_system[position] ELSE 0

\* points_system[position-1] if position <= 10 else 0
PointsFor(position) == IF position <= 10 THEN points_system[position] ELSE 0

SimStart(year, teams, cal) ==
    [pc |-> "seed", year |-> year, teams |-> teams, cal |-> cal, round |-> 0,
     i |-> 0, drivers |-> <<>>, results |-> <<>>, position |-> 1,
     pend |-> <<>>, out |-> <<>>]

\* the head of the loop over the races, or the return
BeginRound(st, r) ==
    IF r > Len(st.cal)
    THEN [st EXCEPT !.pc = "done", !.round = r, !.drivers = <<>>, !.results = <<>>,
                    !.i = 0, !.pend = <<>>]
    ELSE [st EXCEPT !.pc = "quali", !.round = r, !.drivers = AllDrivers(st.teams),
                    !.results = <<>>, !.i = 1, !.pend = <<>>]

\* race_results.append(...) and the end of the loop over all_drivers
AppendResult(st, res) ==
    LET all == Append(st.results, res) IN
    IF st.i < Len(st.drivers)
    THEN [st EXCEPT !.pc = "attrition", !.results = all, !.i = st.i + 1]
    ELSE [st EXCEPT !.pc = "rec1", !.results = SortDesc(all, "race_score"),
                    !.i = 1, !.position = 1]

RecordOfGridByFinish(st, result) ==
    LET fin == Classified(result) IN
    [year |-> st.year,
     round |-> st.round,
     race_name |-> st.cal[st.round],
     has_sprint |-> HasSprint(st.year, st.round),
     driver |-> result.driver.name,
     constructor |-> result.driver.team,
     grid_position |-> st.i,
     quali_position |-> result.quali_pos,
     final_position |-> IF fin THEN st.position ELSE DnfPosition,
     points |-> IF fin THEN PointsFor(st.position) ELSE 0,
     laps |-> 57,
     status |-> result.status,
     fastest_lap_time |-> 0,
     fastest_lap_rank |-> 0]

\* the record of sample_data.append, before its random fields
RecordOf(st, result) ==
    LET fin == Classified(result) IN
    [year |-> st.year,
     round |-> st.round,
     race_name |-> st.cal[st.round],
     has_sprint |-> HasSprint(st.year, st.round),
     driver |-> result.driver.name,
     constructor |-> result.driver.team,
     grid_position |-> result.quali_pos,
     quali_position |-> result.quali_pos,
     final_position |-> IF fin THEN st.position ELSE DnfPosition,
     points |-> IF fin THEN PointsFor(st.position) ELSE 0,
     laps |-> 57,
     status |-> result.status,
     fastest_lap_time |-> 0,
     fastest_lap_rank |-> 0]

SimStep(st, g) ==
    LET v == NextRng(g) IN
    CASE st.pc = "seed" ->
           [st |-> BeginRound(st, 1), rng |-> SeedState(st.year * 1000, g)]
      [] st.pc = "quali" ->
           LET ds == [st.drivers EXCEPT ![st.i].quali_score = QualiScore(st.drivers[st.i], v)]
           IN [st |-> IF st.i < Len(ds)
                      THEN [st EXCEPT !.drivers = ds, !.i = st.i + 1]
                      ELSE [st EXCEPT !.drivers = SortDesc(ds, "quali_score"),
                                      !.pc = "attrition", !.i = 1],
               rng |-> v]
      [] st.pc = "attrition" ->
           [st |-> [st EXCEPT !.pc = IF Below(v, st.drivers[st.i].reliability)
                                     THEN "score" ELSE "dnf"],
            rng |-> v]
      [] st.pc = "score" ->
           LET driver == st.drivers[st.i] IN
           [st |-> AppendResult(st, [driver |-> driver,
                                     quali_pos |-> QualiPos(st.drivers, driver),
                                     race_score |-> RaceScore(driver, st.year, v),
                                     status |-> "Finished"]),
            rng |-> v]
      [] st.pc = "dnf" ->
           LET driver == st.drivers[st.i] IN
           [st |-> AppendResult(st, [driver |-> driver,
                                     quali_pos |-> QualiPos(st.drivers, driver),
                                     race_score |-> DnfScore,
                                     status |-> Choice(DnfStatuses, v)]),
            rng |-> v]
      [] st.pc = "rec1" ->
           LET result == st.results[st.i]
               rec == RecordOf(st, result)
           IN [st |-> [st EXCEPT
                         !.pc = "rec2",
                         !.position = IF Classified(result) THEN st.position + 1
                                      ELSE st.position,
                         !.pend = IF result.status = "Finished"
                                  THEN [rec EXCEPT !.fastest_lap_time = 32000 + Uniform(0, 2000, v)]
                                  ELSE [rec EXCEPT !.laps = RandInt(20, 50, v)]],
               rng |-> v]
      [] st.pc = "rec2" ->
           LET rec == IF st.pend.status = "Finished"
                      THEN [st.pend EXCEPT !.fastest_lap_rank = RandInt(1, 20, v)]
                      ELSE [st.pend EXCEPT !.fastest_lap_time = 32000 + Uniform(0, 2000, v)]
               more == [st EXCEPT !.out = Append(st.out, rec), !.pend = <<>>]
           IN [st |-> IF st.i < Len(st.results)
                      THEN [more EXCEPT !.pc = "rec1", !.i = st.i + 1]
                      ELSE BeginRound(more, st.round + 1),
               rng |-> v]
      [] OTHER -> [st |-> st, rng |-> g]

RECURSIVE RunRace(_, _, _)
\* the steps of round r
RunRace(st, g, r) ==
    IF st.pc = "done" \/ st.round # r THEN [st |-> st, rng |-> g]
    ELSE LET x == SimStep(st, g) IN RunRace(x.st, x.rng, r)

RECURSIVE RunSeason(_, _)
RunSeason(st, g) ==
    IF st.pc = "done" THEN [st |-> st, rng |-> g]
    ELSE LET x == RunRace(st, g, st.round) IN RunSeason(x.st, x.rng)

\* the whole call, made with the generator in state g: the records returned
\* and the state the generator is left in
Simulate(year, teams, cal, g) ==
    LET x == RunSeason(SimStart(year, teams, cal), g)
    IN [out |-> x.st.out, rng |-> x.rng]

create_realistic_data(year, g) == Simulate(year, team_performance(year), races(year), g)

(***************************************************************************)
(* Callers of the simulator in one process, one call at a time             *)
(***************************************************************************)
years == <<2023, 2024, 2025>>

Years == {years[k] : k \in 1..Len(years)}

SimIdle ==
    /\ firstOut = [y \in Years |-> <<>>]
    /\ lastOut = [y \in Years |-> <<>>]
    /\ ncalls = [y \in Years |-> 0]
    /\ disturbed = [y \in Years |-> FALSE]
    /\ draws = 0

ColIdle ==
    /\ all_data = <<>>
    /\ yi = 1
    /\ cpc = "loop"
    /\ df = <<>>
    /\ fetched = [y \in Years |-> "none"]
    /\ lost = <<>>

NotRun == [kind |-> "not run"]

MetIdle ==
    /\ csv = <<>>
    /\ report = NotRun
    /\ areport = NotRun
    /\ shuffles = 0

ParIdle == wst = <<>>

InitSim ==
    /\ gen \in Gens
    /\ rng = 0
    /\ mode = "sim"
    /\ SimIdle
    /\ ColIdle
    /\ MetIdle
    /\ ParIdle

RECURSIVE SumOver(_, _)
SumOver(f, S) ==
    IF S = {} THEN 0
    ELSE LET x == CHOOSE x \in S : TRUE IN f[x] + SumOver(f, S \ {x})

\* create_realistic_data(year)
CallSimulator(year) ==
    /\ mode = "sim"
    /\ SumOver(ncalls, Years) < MaxCalls
    /\ LET r == create_realistic_data(year, rng) IN
       /\ rng' = r.rng
       /\ lastOut' = [lastOut EXCEPT ![year] = r.out]
       /\ firstOut' = [firstOut EXCEPT ![year] = IF ncalls[year] = 0 THEN r.out ELSE @]
    /\ ncalls' = [ncalls EXCEPT ![year] = @ + 1]
    /\ disturbed' = [y \in Years |-> IF y = year THEN disturbed[y] ELSE ncalls[y] > 0]
    /\ UNCHANGED <<gen, mode, draws, colVars, metVars, parVars>>

\* any other use of the module-level generator in the process
OtherDraw ==
    /\ mode = "sim"
    /\ draws < MaxDraws
    /\ rng' = NextRng(rng)
    /\ draws' = draws + 1
    /\ disturbed' = [y \in Years |-> ncalls[y] > 0]
    /\ UNCHANGED <<gen, mode, firstOut, lastOut, ncalls, colVars, metVars, parVars>>

NextSim == (\E year \in Years : CallSimulator(year)) \/ OtherDraw

SpecSim == InitSim /\ [][NextSim]_vars

(***************************************************************************)
(* collect_f1_data_recent: the live API's answers (the inputs)             *)
(*                                                                         *)
(* A numeric field of the API's JSON is a string; it is modelled as the    *)
(* sequence of its characters, which int() and float() parse.              *)
(***************************************************************************)
DigitChars == <<"0", "1", "2", "3", "4", "5", "6", "7", "8", "9">>

\* the value of a digit character, 10 for any other character
DigitVal(c) ==
    IF \E d \in 1..Len(DigitChars) : DigitChars[d] = c
    THEN (CHOOSE d \in 1..Len(DigitChars) : DigitChars[d] = c) - 1
    ELSE 10

\* whether int(raw) returns; it raises ValueError otherwise
IsNumeral(raw) == Len(raw) > 0 /\ \A k \in 1..Len(raw) : DigitVal(raw[k]) < 10

RECURSIVE NumeralValue(_)
\* int(raw) of a numeral
NumeralValue(raw) ==
    IF raw = <<>> THEN 0
    ELSE 10 * NumeralValue(SubSeq(raw, 1, Len(raw) - 1)) + DigitVal(raw[Len(raw)])

RECURSIVE Numeral(_)
\* the JSON string of a natural number
Numeral(n) ==
    IF n < 10 THEN <<DigitChars[n + 1]>>
    ELSE Append(Numeral(n \div 10), DigitChars[(n % 10) + 1])

\* the results the API may list for a race: a winner from pole, an entry
\* whose position is not a number, and a retirement from the pit lane (grid 0)
\* that the API still gives a numeric position
RawResults ==
    << [driverId |-> "max_verstappen", familyName |-> "Verstappen", constructor |-> "Red Bull",
       grid |-> <<"1">>, position |-> <<"1">>, points |-> <<"2", "5">>,
       status |-> "Finished"],
      [driverId |-> "albon", familyName |-> "Albon", constructor |-> "Williams",
       grid |-> <<"5">>, position |-> <<"R">>, points |-> <<"0">>,
       status |-> "Retired"],
      [driverId |-> "sargeant", familyName |-> "Sargeant", constructor |-> "Williams",
       grid |-> <<"0">>, position |-> <<"1", "8">>, points |-> <<"0">>,
       status |-> "Engine"] >>

RECURSIVE SubLists(_, _, _)
\* the lists of 1..n elements of seq that keep their order and end before the
\* element numbered last
SubLists(seq, last, n) ==
    IF n = 0 THEN {}
    ELSE {<<seq[k]>> : k \in 1..(last - 1)} \cup
         UNION { {Append(q, seq[k]) : q \in SubLists(seq, k, n - 1)} :
                 k \in 1..(last - 1) }

\* the lists of results the API may give for a race, in its order
ResultLists(last, n) == SubLists(RawResults, last, n)

\* the answers to the qualifying request of a race: the request raises, the
\* answer is not a 200, or it lists qualifying positions
QualiResponses ==
    { [raises |-> TRUE, status_code |-> 0, QualifyingResults |-> <<>>],
      [raises |-> FALSE, status_code |-> 404, QualifyingResults |-> <<>>],
      [raises |-> FALSE, status_code |-> 200,
       QualifyingResults |-> << [driverId |-> "max_verstappen", position |-> <<"2">>],
                                [driverId |-> "sargeant", position |-> <<"2", "0">>] >>] }

\* the answers to the sprint request of a race
SprintResponses ==
    { [raises |-> TRUE, status_code |-> 0],
      [raises |-> FALSE, status_code |-> 404] }

\* the races the API may list as round k
LiveRacesAt(k) ==
    { [round |-> Numeral(k), raceName |-> RaceNames[k], quali |-> q, sprint |-> sp,
       Results |-> res] :
        q \in QualiResponses, sp \in SprintResponses,
        res \in ResultLists(Len(RawResults) + 1, MaxLiveResults) }

RECURSIVE RaceLists(_)
\* the lists of exactly n races, rounds 1..n
RaceLists(n) ==
    IF n = 0 THEN {<<>>}
    ELSE {Append(q, r) : q \in RaceLists(n - 1), r \in LiveRacesAt(n)}

\* the answers to the results request of a year
LiveResponses ==
    { [raises |-> TRUE, status_code |-> 0, Races |-> <<>>],
      [raises |-> FALSE, status_code |-> 500, Races |-> <<>>] }
    \cup { [raises |-> FALSE, status_code |-> 200, Races |-> rs] :
             rs \in UNION {RaceLists(n) : n \in 0..MaxLiveRaces} }

(***************************************************************************)
(* collect_f1_data_recent: the loop over the years                         *)
(***************************************************************************)
\* quali_positions[driver_id] = int(q_result['position']) over the listed
\* results; failed when an int() raises
QualiPositions(q) ==
    IF q.status_code # 200 THEN [failed |-> FALSE, positions |-> <<>>]
    ELSE [failed |-> \E k \in 1..Len(q.QualifyingResults) :
                        ~IsNumeral(q.QualifyingResults[k].position),
          positions |-> q.QualifyingResults]

\* quali_positions.get(driver_id, 99)
QualiPositionOf(positions, driver_id) ==
    IF \E k \in 1..Len(positions) : positions[k].driverId = driver_id
    THEN LET k == CHOOSE k \in 1..Len(positions) :
                    /\ positions[k].driverId = driver_id
                    /\ \A j \in (k + 1)..Len(positions) : positions[j].driverId # driver_id
         IN NumeralValue(positions[k].position)
    ELSE 99

\* the dictionary appended for one result; failed when a conversion raises
LiveRecord(year, race, positions, result) ==
    IF ~(IsNumeral(race.round) /\ IsNumeral(result.grid)
         /\ IsNumeral(result.position) /\ IsNumeral(result.points))
    THEN [failed |-> TRUE, rec |-> <<>>]
    ELSE [failed |-> FALSE,
          rec |-> [year |-> year,
                   round |-> NumeralValue(race.round),
                   race_name |-> race.raceName,
                   has_sprint |-> FALSE,
                   driver |-> result.familyName,
                   constructor |-> result.constructor,
                   grid_position |-> NumeralValue(result.grid),
                   quali_position |-> QualiPositionOf(positions, result.driverId),
                   final_position |-> NumeralValue(result.position),
                   points |-> NumeralValue(result.points),
                   laps |-> 0,
                   status |-> result.status,
                   fastest_lap_time |-> 0,
                   fastest_lap_rank |-> 0,
                   src |-> "live"]]

RECURSIVE IngestResults(_, _, _, _, _, _)
\* for result in race['Results']: all_data.append(...), until one raises
IngestResults(year, race, positions, results, k, data) ==
    IF k > Len(results) THEN [failed |-> FALSE, data |-> data, lost |-> <<>>]
    ELSE LET r == LiveRecord(year, race, positions, results[k]) IN
         IF r.failed
         THEN [failed |-> TRUE, data |-> data, lost |-> SubSeq(results, k, Len(results))]
         ELSE IngestResults(year, race, positions, results, k + 1, Append(data, r.rec))

\* the body of the loop over the races of a year
IngestRace(year, race, data) ==
    LET qp == QualiPositions(race.quali) IN
    IF race.quali.raises \/ qp.failed \/ race.sprint.raises
    THEN [failed |-> TRUE, data |-> data, lost |-> <<>>]
    ELSE IngestResults(year, race, qp.positions, race.Results, 1, data)

RECURSIVE IngestRaces(_, _, _, _)
IngestRaces(year, rs, k, data) ==
    IF k > Len(rs) THEN [failed |-> FALSE, data |-> data, lost |-> <<>>]
    ELSE LET r == IngestRace(year, rs[k], data) IN
         IF r.failed THEN r ELSE IngestRaces(year, rs, k + 1, r.data)

\* the try block of one year: what all_data holds when it ends, and whether it
\* ended by an exception
IngestYear(year, resp, data) ==
    IF resp.raises \/ resp.status_code # 200
    THEN [failed |-> TRUE, data |-> data, lost |-> <<>>]
    ELSE IF resp.Races = <<>> /\ year = 2025
    THEN [failed |-> TRUE, data |-> data, lost |-> <<>>]
    ELSE IngestRaces(year, resp.Races, 1, data)

FromSimulator(out) == [k \in 1..Len(out) |-> [src |-> "sim"] @@ out[k]]

RecoverOnlyCurrentSeason(year, data, simulated) ==
    IF year = 2025
    THEN [raised |-> FALSE, data |-> data \o simulated]
    ELSE [raised |-> TRUE, data |-> data]

\* except Exception as e: ... all_data.extend(create_realistic_data(year))
Recover(year, data, simulated) ==
    [raised |-> FALSE, data |-> data \o simulated]

PositionChangeFromQuali(rec) == rec.quali_position - rec.final_position

\* df['position_change'] = df['grid_position'] - df['final_position']
PositionChange(rec) == rec.grid_position - rec.final_position

\* ~df['status'].str.contains('Retired|DNF|Accident|Collision|Engine|Gearbox|
\* Hydraulics|Electrical', case=False), over the statuses of the model
FinishedFlag(status) ==
    status \notin {"Retired", "Collision", "Engine", "Gearbox", "Hydraulics"}

\* df = pd.DataFrame(all_data) and the columns computed from it
BuildFrame(data) ==
    [k \in 1..Len(data) |->
        [position_change |-> PositionChange(data[k]),
         quali_to_race_change |-> data[k].quali_position - data[k].final_position,
         scored_points |-> data[k].points > 0,
         finished |-> FinishedFlag(data[k].status)] @@ data[k]]

Init ==
    /\ gen \in Gens
    /\ rng = 0
    /\ mode = "collect"
    /\ SimIdle
    /\ ColIdle
    /\ MetIdle
    /\ ParIdle

\* one iteration of: for year in years
ProcessYear ==
    /\ mode = "collect"
    /\ cpc = "loop"
    /\ yi <= Len(years)
    /\ LET year == years[yi] IN
       \E sim \in {create_realistic_data(year, rng)} :
       \E simulated \in {FromSimulator(sim.out)} :
       \E resp \in LiveResponses :
            LET ing == IngestYear(year, resp, all_data)
                rec == IF ing.failed THEN Recover(year, ing.data, simulated)
                       ELSE [raised |-> FALSE, data |-> ing.data]
            IN /\ all_data' = rec.data
               /\ rng' = IF ing.failed /\ ~rec.raised THEN sim.rng ELSE rng
               /\ cpc' = IF rec.raised THEN "raised" ELSE "loop"
               /\ yi' = IF rec.raised THEN yi ELSE yi + 1
               /\ fetched' = [fetched EXCEPT ![year] = IF ing.failed THEN "failed" ELSE "ok"]
               /\ lost' = ing.lost
    /\ UNCHANGED <<gen, mode, df, simVars, metVars, parVars>>

\* the rest of the function, from df = pd.DataFrame(all_data) to return df,
\* df.to_csv(...) included; a frame of no rows has no column 'grid_position'
\* and the lookup raises before the file is written
FinishCollection ==
    /\ mode = "collect"
    /\ cpc = "loop"
    /\ yi > Len(years)
    /\ df' = BuildFrame(all_data)
    /\ csv' = IF all_data = <<>> THEN csv ELSE df'
    /\ cpc' = IF all_data = <<>> THEN "raised" ELSE "done"
    /\ UNCHANGED <<rng, gen, mode, all_data, yi, fetched, lost, report, areport, shuffles,
                   simVars, parVars>>

Next == ProcessYear \/ FinishCollection

Spec == Init /\ [][Next]_vars

(***************************************************************************)
(* The metrics of dashboard/app.py and src/analysis.py                     *)
(*                                                                         *)
(* A float is modelled exactly: a finite value is the fraction num/den in  *)
(* lowest terms, and the IEEE results of a division by zero are kept as    *)
(* the values inf, -inf and nan.  A value under a square root is held by   *)
(* the fraction under the root.                                            *)
(***************************************************************************)
Abs(x) == IF x < 0 THEN -x ELSE x

RECURSIVE Gcd(_, _)
Gcd(a, b) == IF b = 0 THEN a ELSE Gcd(b, a % b)

NaN == [kind |-> "nan"]
PosInf == [kind |-> "inf"]
NegInf == [kind |-> "-inf"]

\* the float a / b of two integers, as numpy divides
Div(a, b) ==
    IF b = 0 THEN (IF a > 0 THEN PosInf ELSE IF a < 0 THEN NegInf ELSE NaN)
    ELSE LET g == Gcd(Abs(a), Abs(b))
             sgn == IF b < 0 THEN -1 ELSE 1
         IN [kind |-> "number", num |-> (sgn * a) \div g, den |-> (sgn * b) \div g]

Number(n) == Div(n, 1)

IsNumber(x) == x.kind = "number"

RECURSIVE SumRange(_, _, _)
\* xs[lo] + ... + xs[hi], by halves
SumRange(xs, lo, hi) ==
    IF lo > hi THEN 0
    ELSE IF lo = hi THEN xs[lo]
    ELSE LET mid == (lo + hi) \div 2 IN SumRange(xs, lo, mid) + SumRange(xs, mid + 1, hi)

\* the sum of a column of integers
Sum(xs) == SumRange(xs, 1, Len(xs))

\* the number of True in a boolean column
Count(flags) == Sum([k \in 1..Len(flags) |-> IF flags[k] THEN 1 ELSE 0])

RECURSIVE FilterRange(_, _, _, _)
\* the rows lo..hi whose flag is True, in their order, by halves
FilterRange(rows, flags, lo, hi) ==
    IF lo > hi THEN <<>>
    ELSE IF lo = hi THEN (IF flags[lo] THEN <<rows[lo]>> ELSE <<>>)
    ELSE LET mid == (lo + hi) \div 2 IN
         FilterRange(rows, flags, lo, mid) \o FilterRange(rows, flags, mid + 1, hi)

\* df[mask]: the rows whose flag is True, in their order
Filter(rows, flags) == FilterRange(rows, flags, 1, Len(rows))

\* series.mean() * 100 of a boolean column: nan for a column of no rows
MeanPct(flags) == Div(100 * Count(flags), Len(flags))

(***************************************************************************)
(* The rows the metrics are computed from                                  *)
(***************************************************************************)
CsvRow(y, r, race, team, grid, quali, final, pts) ==
    [year |-> y, round |-> r, race_name |-> race, constructor |-> team,
     grid_position |-> grid, quali_position |-> quali, final_position |-> final,
     points |-> pts, position_change |-> grid - final]

\* rows a results file may hold: a win from pole, a pole not converted, a
\* second place kept, a win from third, a pointless midfield finish, a win
\* from sixth, a retirement, and two rows of the current season
RowPool ==
    << CsvRow(2023, 1, "Bahrain Grand Prix", "Red Bull", 1, 1, 1, 25),
       CsvRow(2023, 2, "Saudi Arabian Grand Prix", "Ferrari", 1, 1, 2, 18),
       CsvRow(2023, 3, "Australian Grand Prix", "McLaren", 2, 2, 2, 18),
       CsvRow(2023, 3, "Australian Grand Prix", "Mercedes", 3, 3, 1, 25),
       CsvRow(2023, 1, "Bahrain Grand Prix", "Williams", 12, 12, 12, 0),
       CsvRow(2024, 1, "Bahrain Grand Prix", "Ferrari", 6, 6, 1, 25),
       CsvRow(2024, 1, "Bahrain Grand Prix", "Mercedes", 7, 7, 99, 0),
       CsvRow(2025, 1, "Bahrain Grand Prix", "McLaren", 3, 3, 1, 25),
       CsvRow(2025, 1, "Bahrain Grand Prix", "Haas F1 Team", 12, 12, 15, 0) >>

\* groupby('constructor') yields its groups in the order of their names
ConstructorOrder ==
    <<"Ferrari", "Haas F1 Team", "McLaren", "Mercedes", "Red Bull", "Williams">>

RECURSIVE Replicate(_, _)
\* each row of base, copies times over
Replicate(base, copies) ==
    IF base = <<>> THEN <<>>
    ELSE Replicate(SubSeq(base, 1, Len(base) - 1), copies)
         \o [k \in 1..copies |-> base[Len(base)]]

(***************************************************************************)
(* dashboard/app.py: load_and_process_data                                 *)
(***************************************************************************)
MaxRaces2025 == 8
InvalidPosition == 99
SignificantMove == 5

\* drop_duplicates(['race_name', 'year']) of the rows of one year: the first
\* row of each race
DropDuplicateRaces(rows) ==
    Filter(rows, [n \in 1..Len(rows) |->
                    ~\E k \in 1..(n - 1) : rows[k].race_name = rows[n].race_name])

\* the race names kept for 2025: .sort_values('round').head(8)
ValidRaces2025(rows) ==
    LET df_2025 == Filter(rows, [k \in 1..Len(rows) |-> rows[k].year = 2025])
        unique == DropDuplicateRaces(df_2025)
        keyed == [k \in 1..Len(unique) |-> [neg |-> -unique[k].round] @@ unique[k]]
        sorted == SortDesc(keyed, "neg")
    IN {sorted[k].race_name : k \in 1..Min(MaxRaces2025, Len(sorted))}

\* the NaN pd.to_numeric(errors='coerce') leaves in a numeric column for a cell
\* that is empty or not a number
Missing == -1

LessThanOrEqual(x, n) == x # Missing /\ x <= n

\* x < n of a column cell: False for NaN
LessThan(x, n) == x # Missing /\ x < n

CutBins == <<0, 3, 6, 10, 15, 99>>
QualiLabels == <<"Front Row", "Top 6", "Q3", "Midfield", "Back">>
RaceLabels == <<"Podium", "Top 6", "Points", "Midfield", "Back">>
NoLabel == "NaN"

CutLeftClosed(x, labels) ==
    IF x # Missing /\ \E i \in 1..Len(labels) : CutBins[i] <= x /\ x < CutBins[i + 1]
    THEN labels[CHOOSE i \in 1..Len(labels) : CutBins[i] <= x /\ x < CutBins[i + 1]]
    ELSE NoLabel

\* pd.cut(column, bins=[0, 3, 6, 10, 15, 99], labels=...): the label of the
\* interval (bins[i], bins[i+1]] that holds x, NaN when none does
Cut(x, labels) ==
    IF x # Missing /\ \E i \in 1..Len(labels) : CutBins[i] < x /\ x <= CutBins[i + 1]
    THEN labels[CHOOSE i \in 1..Len(labels) : CutBins[i] < x /\ x <= CutBins[i + 1]]
    ELSE NoLabel

\* the analytical columns of one row
Enrich(row) ==
    [scored_points |-> row.points > 0,
     quali_performance |-> Cut(row.quali_position, QualiLabels),
     race_performance |-> Cut(row.final_position, RaceLabels),
     top3_quali |-> row.quali_position <= 3,
     top3_finish |-> row.final_position <= 3,
     pole_position |-> row.quali_position = 1,
     won_race |-> row.final_position = 1,
     podium_finish |-> row.final_position <= 3,
     points_finish |-> row.final_position <= 10,
     significant_gain |-> row.position_change >= SignificantMove,
     significant_loss |-> row.position_change <= -SignificantMove,
     performance_delta |-> row.quali_position - row.final_position] @@ row

load_and_process_data(rows) ==
    LET valid == ValidRaces2025(rows)
        kept == Filter(rows, [k \in 1..Len(rows) |->
                    ~(rows[k].year = 2025 /\ rows[k].race_name \notin valid)])
        clean == Filter(kept, [k \in 1..Len(kept) |->
                    /\ LessThan(kept[k].final_position, InvalidPosition)
                    /\ LessThan(kept[k].quali_position, InvalidPosition)])
    IN [k \in 1..Len(clean) |-> Enrich(clean[k])]

(***************************************************************************)
(* dashboard/app.py: calculate_comprehensive_metrics                       *)
(***************************************************************************)
\* series.corr(other): the Pearson coefficient num / sqrt(dx * dy), nan when a
\* column has no spread or the frame has fewer than two rows
Corr(xs, ys) ==
    LET n == Len(xs)
        num == n * Sum([k \in 1..n |-> xs[k] * ys[k]]) - Sum(xs) * Sum(ys)
        dx == n * Sum([k \in 1..n |-> xs[k] * xs[k]]) - Sum(xs) * Sum(xs)
        dy == n * Sum([k \in 1..n |-> ys[k] * ys[k]]) - Sum(ys) * Sum(ys)
    IN IF n < 2 \/ dx = 0 \/ dy = 0 THEN NaN
       ELSE [kind |-> "number", num |-> num, dx |-> dx, dy |-> dy]

\* series.var(): the sample variance, nan for fewer than two rows
Var(xs) ==
    LET n == Len(xs) IN
    IF n < 2 THEN NaN
    ELSE Div(n * Sum([k \in 1..n |-> xs[k] * xs[k]]) - Sum(xs) * Sum(xs), n * (n - 1))

\* series.std(): the root of Var, held by the fraction under the root
Std(xs) == [root_of |-> Var(xs)]

Column(rows, field) == [k \in 1..Len(rows) |-> rows[k][field]]

PoleWinsFirstRow(frame) ==
    LET poles == Filter(frame, Column(frame, "pole_position")) IN
    IF Count(Column(frame, "pole_position")) > 0
    THEN Number(IF poles[1].won_race THEN 100 ELSE 0)
    ELSE Number(0)

\* df[df['pole_position']]['won_race'].mean() * 100 if ... > 0 else 0
PoleWins(frame) ==
    IF Count(Column(frame, "pole_position")) > 0
    THEN MeanPct(Column(Filter(frame, Column(frame, "pole_position")), "won_race"))
    ELSE Number(0)

\* df[df['top3_quali']]['top3_finish'].mean() * 100 if ... > 0 else 0
Top3Retention(frame) ==
    IF Count(Column(frame, "top3_quali")) > 0
    THEN MeanPct(Column(Filter(frame, Column(frame, "top3_quali")), "top3_finish"))
    ELSE Number(0)

\* (df['position_change'] > 0).mean() * 100
OvertakingRate(frame) == MeanPct([k \in 1..Len(frame) |-> frame[k].position_change > 0])

\* (df['significant_gain'] | df['significant_loss']).mean() * 100
SignificantMoves(frame) ==
    MeanPct([k \in 1..Len(frame) |-> frame[k].significant_gain \/ frame[k].significant_loss])

\* (df['performance_delta'].abs() >= 5).mean() * 100
UnpredictabilityEvents(frame) ==
    MeanPct([k \in 1..Len(frame) |-> Abs(frame[k].performance_delta) >= SignificantMove])

\* the keys of groupby('constructor'), in the order of the groups
Constructors(frame) ==
    Filter(ConstructorOrder,
           [c \in 1..Len(ConstructorOrder) |->
               \E k \in 1..Len(frame) : frame[k].constructor = ConstructorOrder[c]])

TeamRows(frame, team) == Filter(frame, [k \in 1..Len(frame) |-> frame[k].constructor = team])

\* df.groupby('constructor')['points'].sum()
PointsByConstructor(frame) ==
    LET teams == Constructors(frame) IN
    [c \in 1..Len(teams) |-> Sum(Column(TeamRows(frame, teams[c]), "points"))]

\* a + b of two floats, none of them infinite
AddF(a, b) ==
    IF ~IsNumber(a) \/ ~IsNumber(b) THEN NaN
    ELSE Div(a.num * b.den + b.num * a.den, a.den * b.den)

\* x * p / q of a float and two integers
ScaleF(x, p, q) == IF ~IsNumber(x) THEN x ELSE Div(x.num * p, x.den * q)

PredictabilityIndexClamped(correlation, pole_wins, top3_retention, overtaking_rate) ==
    LET plus == AddF(AddF(ScaleF(pole_wins, 25, 100), ScaleF(top3_retention, 25, 100)),
                     AddF(Number(20), ScaleF(overtaking_rate, -20, 100)))
    IN IF ~IsNumber(correlation) \/ ~IsNumber(plus) THEN NaN
       ELSE IF correlation.num < 0 /\ plus = Number(0)
            THEN [kind |-> "number", thirty_times |-> [correlation EXCEPT !.num = 0],
                  plus |-> plus]
            ELSE [kind |-> "number", thirty_times |-> correlation, plus |-> plus]

\* (correlation * 0.3 + (pole_wins/100) * 0.25 + (top3_retention/100) * 0.25
\*  + (1 - overtaking_rate/100) * 0.2) * 100: the value is 30 times the
\* correlation, a root, plus the fraction made of the three other terms
PredictabilityIndex(correlation, pole_wins, top3_retention, overtaking_rate) ==
    LET plus == AddF(AddF(ScaleF(pole_wins, 25, 100), ScaleF(top3_retention, 25, 100)),
                     AddF(Number(20), ScaleF(overtaking_rate, -20, 100)))
    IN IF ~IsNumber(correlation) \/ ~IsNumber(plus) THEN NaN
       ELSE [kind |-> "number", thirty_times |-> correlation, plus |-> plus]

\* the weighted sum of the entertainment index is kept by its terms, the
\* standard deviation being a root
calculate_comprehensive_metrics(frame) ==
    IF frame = <<>> THEN [kind |-> "empty"]
    ELSE LET correlation == Corr(Column(frame, "quali_position"), Column(frame, "final_position"))
             pole_wins == PoleWins(frame)
             top3_retention == Top3Retention(frame)
             overtaking_rate == OvertakingRate(frame)
             significant_moves == SignificantMoves(frame)
             position_variance == Std(Column(frame, "position_change"))
             unpredictability_events == UnpredictabilityEvents(frame)
             team_points == PointsByConstructor(frame)
         IN [kind |-> "metrics",
             correlation |-> correlation,
             pole_wins |-> pole_wins,
             top3_retention |-> top3_retention,
             overtaking_rate |-> overtaking_rate,
             significant_moves |-> significant_moves,
             position_variance |-> position_variance,
             unpredictability_events |-> unpredictability_events,
             points_concentration |-> Std(team_points),
             competitive_balance |-> [thousand_over_one_plus |-> Var(team_points)],
             predictability_index |->
                 PredictabilityIndex(correlation, pole_wins, top3_retention,
                                     overtaking_rate),
             entertainment_index |->
                 [significant_moves_x40 |-> significant_moves,
                  unpredictability_events_x30 |-> unpredictability_events,
                  position_variance_x3 |-> position_variance]]

(***************************************************************************)
(* dashboard/app.py: main, the sections computed from df_filtered          *)
(***************************************************************************)
MinSampleSize == 3
MinTeamRaces == 10
MaxGridPosition == 15
TopTeams == 3

\* .round(3) of a float: to the nearest thousandth, a tie to the even one;
\* inf and nan stay as they are
Round3(x) ==
    IF ~IsNumber(x) THEN x
    ELSE LET scaled == x.num * 1000
             q == scaled \div x.den
             twice == 2 * (scaled % x.den)
         IN Div(IF twice > x.den \/ (twice = x.den /\ q % 2 = 1) THEN q + 1 ELSE q, 1000)

YearsOf(frame) == Filter(years, [i \in 1..Len(years) |->
                     \E k \in 1..Len(frame) : frame[k].year = years[i]])

YearRows(frame, year) == Filter(frame, [k \in 1..Len(frame) |-> frame[k].year = year])

\* df_filtered.groupby('year').apply(...).round(3): one row per year, ascending.
\* The correlation is a root and is held exactly: its rounding, which maps a
\* coefficient of 0 to 0, is not computed.
yearly_metrics(frame) ==
    LET ys == YearsOf(frame) IN
    [i \in 1..Len(ys) |->
        LET x == YearRows(frame, ys[i]) IN
        [year |-> ys[i],
         correlation |-> Corr(Column(x, "quali_position"),
                              Column(x, "final_position")),
         pole_wins |-> Round3(PoleWins(x)),
         overtaking_rate |-> Round3(OvertakingRate(x)),
         top3_retention |-> Round3(Top3Retention(x)),
         significant_moves |-> Round3(SignificantMoves(x)),
         races |-> Cardinality({x[k].race_name : k \in 1..Len(x)})]]

\* ((last - first) / first) * 100 of two floats
PctChange(first, last) ==
    IF ~IsNumber(first) \/ ~IsNumber(last) THEN NaN
    ELSE LET diff == Div(last.num * first.den - first.num * last.den,
                         last.den * first.den)
             ratio == Div(diff.num * first.den, diff.den * first.num)
         IN IF ~IsNumber(ratio) THEN ratio
            ELSE LET g == Gcd(100, ratio.den) IN
                 Div(ratio.num * (100 \div g), ratio.den \div g)

\* ((last - first) / first) * 100 of two correlations: a finite value is held
\* by its operands
PctChangeCorr(first, last) ==
    IF ~IsNumber(first) \/ ~IsNumber(last) THEN NaN
    ELSE IF first.num = 0
         THEN (IF last.num > 0 THEN PosInf ELSE IF last.num < 0 THEN NegInf ELSE NaN)
         ELSE [kind |-> "number", first |-> first, last |-> last]

\* abs(x) of a float
FAbs(x) ==
    IF x.kind = "-inf" THEN PosInf
    ELSE IF IsNumber(x) /\ "num" \in DOMAIN x THEN [x EXCEPT !.num = Abs(@)]
    ELSE x

\* the trend figures of the story and of the recommendations
TrendAnalysis(ym) ==
    IF Len(ym) > 1
    THEN [kind |-> "trend",
          story_change_pct |->
              FAbs(PctChangeCorr(ym[1].correlation, ym[Len(ym)].correlation)),
          correlation_trend_pct |->
              PctChangeCorr(ym[1].correlation, ym[Len(ym)].correlation),
          overtaking_trend_pct |->
              PctChange(ym[1].overtaking_rate, ym[Len(ym)].overtaking_rate)]
    ELSE [kind |-> "trend", story_change_pct |-> Number(0),
          correlation_trend_pct |-> Number(0), overtaking_trend_pct |-> Number(0)]

PosData(frame, pos) ==
    Filter(frame, [k \in 1..Len(frame) |-> frame[k].quali_position = pos])

ListedPositionsDescending(frame) ==
    Filter([pos \in 1..MaxGridPosition |-> MaxGridPosition + 1 - pos],
           [pos \in 1..MaxGridPosition |->
               Len(PosData(frame, MaxGridPosition + 1 - pos)) >= MinSampleSize])

\* for pos in range(1, 16): ... if len(pos_data) >= 3
ListedPositions(frame) ==
    Filter([pos \in 1..MaxGridPosition |-> pos],
           [pos \in 1..MaxGridPosition |-> Len(PosData(frame, pos)) >= MinSampleSize])

\* win_prob_data + podium_prob_data + points_prob_data
GridProbabilityTable(frame) ==
    LET listed == ListedPositions(frame)
        Entries(category, limit) ==
            [i \in 1..Len(listed) |->
                LET pos_data == PosData(frame, listed[i]) IN
                [position |-> listed[i],
                 probability |-> MeanPct([k \in 1..Len(pos_data) |->
                                            IF limit = 1
                                            THEN pos_data[k].final_position = 1
                                            ELSE pos_data[k].final_position <= limit]),
                 sample_size |-> Len(pos_data),
                 category |-> category]]
    IN Entries("Race Win", 1) \o Entries("Podium Finish", 3) \o Entries("Points Finish", 10)

\* df_filtered.groupby('constructor').agg(...), the teams of at least 10 rows,
\* sorted by their points
team_metrics(frame) ==
    LET teams == Constructors(frame)
        agg == [c \in 1..Len(teams) |->
                   LET rows == TeamRows(frame, teams[c]) IN
                   [constructor |-> teams[c],
                    points_sum |-> Sum(Column(rows, "points")),
                    won_race_sum |-> Count(Column(rows, "won_race")),
                    race_name_count |-> Len(rows)]]
        kept == Filter(agg, [c \in 1..Len(agg) |-> agg[c].race_name_count >= MinTeamRaces])
    IN SortDesc(kept, "points_sum")

\* team_metrics['points_sum'].values
PointsDistribution(tm) == Column(tm, "points_sum")

\* np.sum(np.abs(np.subtract.outer(p, p))) / (2 * len(p) * p.sum())
GiniCoefficient(p) ==
    Div(Sum([i \in 1..Len(p) |-> Sum([j \in 1..Len(p) |-> Abs(p[i] - p[j])])]),
        2 * Len(p) * Sum(p))

\* points_distribution[:3].sum() / total_points * 100
Top3Concentration(p) == Div(100 * Sum(SubSeq(p, 1, Min(TopTeams, Len(p)))), Sum(p))

ChampionshipConcentration(frame) ==
    LET tm == team_metrics(frame) IN
    IF tm = <<>> THEN [kind |-> "no teams"]
    ELSE [kind |-> "concentration",
          top3_concentration |-> Top3Concentration(PointsDistribution(tm)),
          gini_coefficient |-> GiniCoefficient(PointsDistribution(tm))]

\* what one run of the dashboard computes from the file, every year and every
\* constructor selected
Dashboard(rows) ==
    LET frame == load_and_process_data(rows) IN
    IF frame = <<>> THEN [kind |-> "no data"]
    ELSE
    [kind |-> "dashboard",
     metrics |-> calculate_comprehensive_metrics(frame),
     yearly |-> yearly_metrics(frame),
     trend |-> TrendAnalysis(yearly_metrics(frame)),
     grid_probability |-> GridProbabilityTable(frame),
     concentration |-> ChampionshipConcentration(frame)]

(***************************************************************************)
(* src/analysis.py: analyze_quali_importance                               *)
(***************************************************************************)
MaxWinPosition == 10

\* the rows the script keeps
AnalysisRows(rows) ==
    Filter(rows, [k \in 1..Len(rows) |->
              /\ LessThan(rows[k].quali_position, InvalidPosition)
              /\ LessThan(rows[k].final_position, InvalidPosition)])

\* correlations[year], for the years that have rows
Correlations(frame) ==
    LET ys == YearsOf(frame) IN
    [i \in 1..Len(ys) |->
        LET year_data == YearRows(frame, ys[i]) IN
        [year |-> ys[i],
         corr |-> Corr(Column(year_data, "quali_position"),
                       Column(year_data, "final_position"))]]

\* positions_analyzed and win_prob of one year
WinProbability(frame, year) ==
    LET year_data == YearRows(frame, year)
        starts(pos) == Len(PosData(year_data, pos))
        analyzed == Filter([pos \in 1..MaxWinPosition |-> pos],
                           [pos \in 1..MaxWinPosition |-> starts(pos) > 0])
    IN [i \in 1..Len(analyzed) |->
           LET pos_data == PosData(year_data, analyzed[i]) IN
           [position |-> analyzed[i],
            probability |-> MeanPct([k \in 1..Len(pos_data) |->
                                       pos_data[k].final_position = 1]),
            sample_size |-> Len(pos_data)]]

\* corr_increase, computed when 2023 and 2025 both have a correlation
CorrIncrease(frame) ==
    LET cs == Correlations(frame)
        Has(y) == \E i \in 1..Len(cs) : cs[i].year = y
        Of(y) == cs[CHOOSE i \in 1..Len(cs) : cs[i].year = y].corr
    IN IF Has(2023) /\ Has(2025) THEN PctChangeCorr(Of(2023), Of(2025))
       ELSE [kind |-> "not computed"]

MinCircuitResults == 10
MinTeamResults == 20
SpectacularGain == 3

\* overtaking_data: one entry for each of 2023, 2024, 2025 that has rows
OvertakingData(frame) ==
    LET ys == YearsOf(frame) IN
    [i \in 1..Len(ys) |->
        LET year_data == YearRows(frame, ys[i]) IN
        [year |-> ys[i],
         improvement_rate |->
             MeanPct([k \in 1..Len(year_data) |-> year_data[k].position_change > 0]),
         significant_rate |->
             MeanPct([k \in 1..Len(year_data) |->
                        year_data[k].position_change >= SpectacularGain])]]

RECURSIVE InsertByRate(_, _)
InsertByRate(sorted, x) ==
    IF sorted = <<>> THEN <<x>>
    ELSE IF Head(sorted).improved * x.results >= x.improved * Head(sorted).results
         THEN <<Head(sorted)>> \o InsertByRate(Tail(sorted), x)
         ELSE <<x>> \o sorted

RECURSIVE SortByRate(_)
\* pd.DataFrame(entries).sort_values(rate, ascending=False) of entries whose
\* rate is improved / results * 100; KeyError when there is no entry, the
\* frame of an empty list having no column
SortByRate(entries) ==
    IF entries = <<>> THEN <<>>
    ELSE InsertByRate(SortByRate(SubSeq(entries, 1, Len(entries) - 1)), entries[Len(entries)])

\* the entry of one circuit or one team
GroupEntry(name, group) ==
    [name |-> name,
     improved |-> Count([k \in 1..Len(group) |-> group[k].position_change > 0]),
     results |-> Len(group)]

\* circuit_analysis: the circuits of at least 10 results. A circuit is named
\* by its race, the two columns being written from the same race.
CircuitAnalysis(frame) ==
    LET circuits == Column(DropDuplicateRaces(frame), "race_name")
        groups == [c \in 1..Len(circuits) |->
                      Filter(frame, [k \in 1..Len(frame) |->
                                       frame[k].race_name = circuits[c]])]
        kept == Filter([c \in 1..Len(circuits) |-> GroupEntry(circuits[c], groups[c])],
                       [c \in 1..Len(circuits) |-> Len(groups[c]) >= MinCircuitResults])
    IN kept

\* team_impact: the teams of at least 20 results
TeamImpact(frame) ==
    LET teams == Constructors(frame)
        kept == Filter([c \in 1..Len(teams) |-> GroupEntry(teams[c], TeamRows(frame, teams[c]))],
                       [c \in 1..Len(teams) |->
                           Len(TeamRows(frame, teams[c])) >= MinTeamResults])
    IN kept

\* what one run of the script computes from the file, up to the statement that
\* raises when one does: the sort of an empty circuit or team list (KeyError),
\* next() over overtaking_data without 2023 or 2025 (StopIteration)
Analysis(rows) ==
    LET frame == AnalysisRows(rows)
        overtaking_data == OvertakingData(frame)
        circuit_analysis == CircuitAnalysis(frame)
        team_impact == TeamImpact(frame)
        HasYear(y) == \E i \in 1..Len(overtaking_data) : overtaking_data[i].year = y
        raised == IF circuit_analysis = <<>> THEN "KeyError: circuit"
                  ELSE IF team_impact = <<>> THEN "KeyError: team"
                  ELSE IF ~HasYear(2023) \/ ~HasYear(2025) THEN "StopIteration"
                  ELSE "none"
    IN [kind |-> "analysis",
        win_probability |-> [y \in Years |-> WinProbability(frame, y)],
        overtaking_data |-> overtaking_data,
        circuit_df |-> SortByRate(circuit_analysis),
        team_df |-> IF raised = "KeyError: circuit" THEN <<>> ELSE SortByRate(team_impact),
        raised |-> raised,
        corr_increase |-> IF raised = "none" THEN CorrIncrease(frame)
                          ELSE [kind |-> "not computed"]]

(***************************************************************************)
(* The results file and the programs run on it                             *)
(***************************************************************************)
MaxBaseRows == 4
MaxRows == 30
MaxShuffles == 2

Copies == {1, MinSampleSize, MinTeamRaces}

InitMetrics ==
    /\ gen = 1
    /\ rng = 0
    /\ mode = "metrics"
    /\ SimIdle
    /\ ColIdle
    /\ ParIdle
    /\ \E base \in SubLists(RowPool, Len(RowPool) + 1, MaxBaseRows) :
       \E copies \in Copies :
          /\ Len(base) * copies <= MaxRows
          /\ csv = Replicate(base, copies)
    /\ report = NotRun
    /\ areport = NotRun
    /\ shuffles = 0

\* files of two rows for the derived columns and the indices: a sweep of every
\* position, missing cells included, against a few others, and pairs of rows
\* that gain or lose places
FeatureRow(team, quali, final) ==
    [year |-> 2023, round |-> 1, race_name |-> "Bahrain Grand Prix", constructor |-> team,
     grid_position |-> quali, quali_position |-> quali, final_position |-> final,
     points |-> IF final \in 1..Len(points_system) THEN points_system[final] ELSE 0,
     position_change |-> IF quali = Missing \/ final = Missing THEN Missing
                         ELSE quali - final]

FeatureFrames ==
    { <<FeatureRow("Red Bull", p, r), FeatureRow("Ferrari", r, p)>> :
        p \in 0..InvalidPosition \cup {Missing}, r \in {1, 12, InvalidPosition, Missing} }
    \cup
    { <<FeatureRow("Red Bull", q1, f1), FeatureRow("Ferrari", q2, f2)>> :
        q1 \in {1, 3, 8, 10}, f1 \in {1, 5, 6, InvalidPosition},
        q2 \in {1, 3, 8, 10}, f2 \in {1, 5, 6, InvalidPosition} }

InitFeatures ==
    /\ gen = 1
    /\ rng = 0
    /\ mode = "metrics"
    /\ SimIdle
    /\ ColIdle
    /\ ParIdle
    /\ csv \in FeatureFrames
    /\ report = NotRun
    /\ areport = NotRun
    /\ shuffles = 0

\* streamlit runs main
RunDashboard ==
    /\ mode = "metrics"
    /\ report' = Dashboard(csv)
    /\ UNCHANGED <<rng, gen, mode, csv, areport, shuffles, simVars, colVars, parVars>>

\* python src/analysis.py
RunAnalysis ==
    /\ mode = "metrics"
    /\ areport' = Analysis(csv)
    /\ UNCHANGED <<rng, gen, mode, csv, report, shuffles, simVars, colVars, parVars>>

Swap(rows, i) == [rows EXCEPT ![i] = rows[i + 1], ![i + 1] = rows[i]]

Reverse(rows) == [k \in 1..Len(rows) |-> rows[Len(rows) + 1 - k]]

\* the same rows are written to the file in another order
Shuffle ==
    /\ mode = "metrics"
    /\ shuffles < MaxShuffles
    /\ \/ \E i \in 1..(Len(csv) - 1) : csv' = Swap(csv, i)
       \/ csv' = Reverse(csv)
    /\ csv' # csv
    /\ shuffles' = shuffles + 1
    /\ UNCHANGED <<rng, gen, mode, report, areport, simVars, colVars, parVars>>

NextMetrics == RunDashboard \/ RunAnalysis \/ Shuffle

SpecMetrics == InitMetrics /\ [][NextMetrics]_vars

SpecFeatures == InitFeatures /\ [][NextMetrics]_vars

(***************************************************************************)
(* Simulations of different years run by the threads of one process        *)
(*                                                                         *)
(* random.seed, random.uniform and the other draws act on the one          *)
(* generator of the random module, which every thread of the process       *)
(* shares; a thread may be switched out between any two of its draws.      *)
(* The workers simulate the first race of the calendar for the first       *)
(* drivers of the year's first team.                                       *)
(***************************************************************************)
MaxParDrivers == 2
MaxParRaces == 1

Workers == {1, 2}

WorkerYear(w) == years[w]

WorkerTeams(w) ==
    LET first == team_performance(WorkerYear(w))[1] IN
    << [first EXCEPT !.drivers = SubSeq(@, 1, Min(MaxParDrivers, Len(@)))] >>

WorkerCalendar(w) ==
    LET cal == races(WorkerYear(w)) IN SubSeq(cal, 1, Min(MaxParRaces, Len(cal)))

InitPar ==
    /\ gen \in Gens
    /\ rng = 0
    /\ mode = "workers"
    /\ SimIdle
    /\ ColIdle
    /\ MetIdle
    /\ wst = [w \in Workers |-> SimStart(WorkerYear(w), WorkerTeams(w), WorkerCalendar(w))]

\* worker w runs create_realistic_data up to and with its next use of random
WorkerStep(w) ==
    /\ mode = "workers"
    /\ wst[w].pc # "done"
    /\ LET x == SimStep(wst[w], rng) IN
       /\ wst' = [wst EXCEPT ![w] = x.st]
       /\ rng' = x.rng
    /\ UNCHANGED <<gen, mode, simVars, colVars, metVars>>

NextPar == \E w \in Workers : WorkerStep(w)

SpecPar == InitPar /\ [][NextPar]_vars

(***************************************************************************)
(* The simulator on other ratings: strength and reliability are ratings    *)
(* between 0 and 1, and the dictionary literal is the only place that      *)
(* fixes them.  One thread simulates the first race for the first drivers  *)
(* of the year's first team, rated at each level; the other thread is      *)
(* given no race and only seeds the generator.                             *)
(***************************************************************************)
RatingLevels == {0, 5, 50, 100}

RatedTeams(year) ==
    LET first == team_performance(year)[1] IN
    { << [first EXCEPT !.strength = s, !.reliability = r,
                       !.drivers = SubSeq(@, 1, Min(MaxParDrivers, Len(@)))] >> :
        s \in RatingLevels, r \in RatingLevels }

InitRatings ==
    /\ gen \in Gens
    /\ rng = 0
    /\ mode = "workers"
    /\ SimIdle
    /\ ColIdle
    /\ MetIdle
    /\ \E year \in Years : \E teams \in RatedTeams(year) :
          wst = [w \in Workers |->
                    SimStart(year, teams,
                             IF w = 1 THEN SubSeq(races(year), 1, MaxParRaces) ELSE <<>>)]

SpecRatings == InitRatings /\ [][NextPar]_vars

(***************************************************************************)
(* Claims about the simulator (specification SpecSim)                      *)
(***************************************************************************)
RoundRecs(out, r) == SelectSeq(out, LAMBDA x : x.round = r)

Rounds(out) == {out[k].round : k \in 1..Len(out)}

Finishers(recs) == SelectSeq(recs, LAMBDA x : x.status = "Finished")

\* the values of field f are exactly 1..n, each once
IsPermutation(recs, f, n) ==
    /\ Len(recs) = n
    /\ {recs[k][f] : k \in 1..Len(recs)} = 1..n

RosterSize(year) ==
    LET tp == team_performance(year) IN
    SumOver([t \in 1..Len(tp) |-> Len(tp[t].drivers)], 1..Len(tp))

CalledYears == {y \in Years : ncalls[y] > 0}

\* C1: every call of the simulator for a year returns, field for field, the
\* records its first call for that year returned, whatever was drawn from the
\* generator or simulated in between.
C1_SameYearSameRecords ==
    \A y \in CalledYears : lastOut[y] = firstOut[y]

C1_Witness ==
    \E y \in Years : ncalls[y] >= 2 /\ disturbed[y] /\ Len(lastOut[y]) > 0

\* C3: in every simulated race the qualifying positions are exactly 1..N for
\* the N roster drivers, and the final positions of the K drivers who finished
\* are exactly 1..K.
C3_PositionsArePermutations ==
    \A y \in CalledYears :
        /\ Rounds(lastOut[y]) = 1..Len(races(y))
        /\ \A r \in Rounds(lastOut[y]) :
              LET recs == RoundRecs(lastOut[y], r)
                  fin == Finishers(recs)
              IN /\ IsPermutation(recs, "quali_position", RosterSize(y))
                 /\ IsPermutation(fin, "final_position", Len(fin))

C3_Witness ==
    \E y \in CalledYears : \E r \in Rounds(lastOut[y]) :
        LET recs == RoundRecs(lastOut[y], r)
            fin == Finishers(recs)
        IN /\ Len(fin) > 1
           /\ Len(fin) < Len(recs)
           /\ \E k \in 1..Len(fin) : fin[k].final_position # fin[k].quali_position

\* C4: a finisher placed p gets the p-th value of the schedule when p <= 10
\* and 0 otherwise; a driver who did not finish gets position 99 and 0 points;
\* each value of the schedule is awarded at most once per race and the number
\* of scorers is min(K, 10).
C4_PointsFollowSchedule ==
    \A y \in CalledYears : \A r \in Rounds(lastOut[y]) :
        LET recs == RoundRecs(lastOut[y], r)
            fin == Finishers(recs)
            scorers == {k \in 1..Len(recs) : recs[k].points > 0}
        IN /\ \A k \in 1..Len(recs) :
                 IF recs[k].status = "Finished"
                 THEN /\ recs[k].final_position \in 1..Len(fin)
                      /\ recs[k].points =
                            IF recs[k].final_position <= Len(points_system)
                            THEN points_system[recs[k].final_position] ELSE 0
                 ELSE /\ recs[k].final_position = DnfPosition
                      /\ recs[k].points = 0
           /\ \A p \in 1..Len(points_system) :
                 Cardinality({k \in 1..Len(recs) : recs[k].points = points_system[p]}) <= 1
           /\ Cardinality(scorers) = Min(Len(fin), Len(points_system))

C4_Witness ==
    \E y \in CalledYears : \E r \in Rounds(lastOut[y]) :
        LET recs == RoundRecs(lastOut[y], r) IN
        /\ \E k \in 1..Len(recs) : recs[k].final_position = 10 /\ recs[k].points = 1
        /\ \E k \in 1..Len(recs) :
              recs[k].final_position > 10 /\ recs[k].status = "Finished"
        /\ \E k \in 1..Len(recs) : recs[k].final_position = DnfPosition

(***************************************************************************)
(* Claims about collect_f1_data_recent (specification Spec)                *)
(***************************************************************************)
RowsFrom(rows, source, year) ==
    {k \in 1..Len(rows) : rows[k].src = source /\ rows[k].year = year}

YearIndex(y) == CHOOSE k \in 1..Len(years) : years[k] = y

\* C2: every row of the returned frame, live or simulated, retirements at
\* position 99 included, has position_change = grid_position - final_position.
C2_PositionChangeIsGridMinusFinal ==
    \A k \in 1..Len(df) :
        df[k].position_change = df[k].grid_position - df[k].final_position

C2_Witness ==
    /\ cpc = "done"
    /\ \E k \in 1..Len(df) :
         /\ df[k].src = "live"
         /\ df[k].grid_position # df[k].quali_position
    /\ \E k \in 1..Len(df) :
         /\ df[k].src = "sim"
         /\ df[k].final_position = DnfPosition
         /\ df[k].position_change = df[k].grid_position - DnfPosition

\* C5: a year whose live fetch failed never makes the function raise; the
\* simulator's records of that year are in all_data, the loop has moved past
\* the year, and the function only returns once every year has been processed.
C5_FetchFailureIsRecovered ==
    /\ cpc # "raised"
    /\ \A y \in Years :
         fetched[y] = "failed" =>
            /\ RowsFrom(all_data, "sim", y) # {}
            /\ yi > YearIndex(y)
    /\ \A k \in 1..Len(years) : k < yi => fetched[years[k]] # "none"
    /\ cpc = "done" => yi > Len(years)

C5_Witness ==
    /\ cpc = "done"
    /\ fetched[2023] = "failed"
    /\ RowsFrom(all_data, "live", 2023) # {}
    /\ RowsFrom(all_data, "sim", 2023) # {}
    /\ fetched[2024] = "ok"
    /\ fetched[2025] = "failed"

(***************************************************************************)
(* Claims about the metrics (specification SpecMetrics)                    *)
(***************************************************************************)
Observations(frame, pos) ==
    Cardinality({k \in 1..Len(frame) : frame[k].quali_position = pos})

ZeroBaseline(x) == IsNumber(x) /\ x.num = 0

\* C8: when the first year's value of a metric is exactly 0, the percentage
\* change of the metric is reported as undefined: not inf, -inf or nan.
C8_ZeroBaselineIsUndefined ==
    /\ (report.kind = "dashboard" /\ Len(report.yearly) > 1) =>
          /\ ZeroBaseline(report.yearly[1].overtaking_rate) =>
                report.trend.overtaking_trend_pct.kind = "undefined"
          /\ ZeroBaseline(report.yearly[1].correlation) =>
                /\ report.trend.correlation_trend_pct.kind = "undefined"
                /\ report.trend.story_change_pct.kind = "undefined"
    /\ (areport.kind = "analysis" /\ areport.corr_increase.kind # "not computed") =>
          LET cs == Correlations(AnalysisRows(csv)) IN
          ZeroBaseline(cs[1].corr) => areport.corr_increase.kind = "undefined"

TeamTotals(rows) == PointsDistribution(team_metrics(load_and_process_data(rows)))

\* C9: over the constructors' point totals, N >= 2 of them, the Gini
\* coefficient is 0 when the totals are all equal and (N-1)/N when one
\* constructor holds all the points.
C9_GiniOfEqualAndMonopoly ==
    report.kind = "dashboard" =>
        LET p == TeamTotals(csv)
            N == Len(p)
        IN N >= 2 =>
            /\ (\A i \in 1..N : p[i] = p[1]) =>
                   report.concentration.gini_coefficient = Number(0)
            /\ (p[1] > 0 /\ \A i \in 2..N : p[i] = 0) =>
                   report.concentration.gini_coefficient = Div(N - 1, N)

\* the two values of the Gini coefficient whenever some constructor has points
C9_PositiveTotals ==
    (report.kind = "dashboard" /\ Len(TeamTotals(csv)) >= 2 /\ Sum(TeamTotals(csv)) = 0)
    \/ C9_GiniOfEqualAndMonopoly

(***************************************************************************)
(* Claims about parallel workers (specification SpecPar)                   *)
(***************************************************************************)
\* what worker w returns when no other worker runs
SoloOutput(w) == Simulate(WorkerYear(w), WorkerTeams(w), WorkerCalendar(w), 0).out

\* C10: whatever the interleaving of the workers, each worker's simulation
\* returns the records it returns when it runs alone.
C10_WorkersReturnSoloOutput ==
    \A w \in Workers : wst[w].pc = "done" => wst[w].out = SoloOutput(w)

(***************************************************************************)
(* Claims about undefined metrics (specification SpecMetrics)              *)
(***************************************************************************)
Enriched == load_and_process_data(csv)

NoPoleRow == \A k \in 1..Len(Enriched) : Enriched[k].quali_position # 1

NoTop3QualiRow == \A k \in 1..Len(Enriched) : Enriched[k].quali_position > 3

\* C11: when no row has quali_position 1 the pole conversion is reported as
\* undefined, and when no row has quali_position <= 3 the top-3 retention is
\* reported as undefined; neither is a number such as 0.
C11_NoPoleMeansUndefined ==
    report.kind = "dashboard" =>
        /\ NoPoleRow => ~IsNumber(report.metrics.pole_wins)
        /\ NoTop3QualiRow => ~IsNumber(report.metrics.top3_retention)

\* C12: the predictability index is undefined whenever one of its inputs (the
\* correlation, the pole conversion, the top-3 retention, the overtaking rate)
\* is undefined; it is never computed from a value put in place of an undefined
\* input.
C12_IndexUndefinedWhenInputUndefined ==
    report.kind = "dashboard" =>
        ((\/ ~IsNumber(report.metrics.correlation)
          \/ NoPoleRow
          \/ NoTop3QualiRow
          \/ ~IsNumber(report.metrics.overtaking_rate))
            => ~IsNumber(report.metrics.predictability_index))

C14_GiniUndefinedBelowTwoConstructors ==
    (report.kind = "dashboard" /\ Len(TeamTotals(csv)) <= 1) =>
        \/ report.concentration.kind = "no teams"
        \/ ~IsNumber(report.concentration.gini_coefficient)

\* C15: the share of the points held by the three best constructors is
\* undefined when there are fewer than three constructors; it is not 100% for
\* one or two.
C15_Top3UndefinedBelowThreeConstructors ==
    (report.kind = "dashboard" /\ Len(TeamTotals(csv)) < TopTeams) =>
        \/ report.concentration.kind = "no teams"
        \/ ~IsNumber(report.concentration.top3_concentration)

(***************************************************************************)
(* Claims about the subgroups of the analysis script (specification        *)
(* SpecMetrics)                                                            *)
(***************************************************************************)
GroupSize(frame, field, value) ==
    Count([k \in 1..Len(frame) |-> frame[k][field] = value])

\* some year, team or circuit of the analysed rows has too few rows or none
SomeSmallSubgroup ==
    LET frame == AnalysisRows(csv) IN
    \/ \E y \in Years : GroupSize(frame, "year", y) = 0
    \/ \E k \in 1..Len(frame) :
          \/ GroupSize(frame, "constructor", frame[k].constructor) < MinTeamResults
          \/ GroupSize(frame, "race_name", frame[k].race_name) < MinCircuitResults

\* C16: when a year, a team or a circuit has too few observations or none, it
\* is skipped and the aggregation of every other subgroup runs to completion
\* without an exception: the script raises nothing and lists exactly the
\* subgroups that have enough observations.
C16_SmallSubgroupsAreSkipped ==
    (areport.kind = "analysis" /\ SomeSmallSubgroup) =>
        LET frame == AnalysisRows(csv) IN
        /\ areport.raised = "none"
        /\ \A k \in 1..Len(frame) :
              /\ (\E i \in 1..Len(areport.circuit_df) :
                      areport.circuit_df[i].name = frame[k].race_name)
                  <=> GroupSize(frame, "race_name", frame[k].race_name) >= MinCircuitResults
              /\ (\E i \in 1..Len(areport.team_df) :
                      areport.team_df[i].name = frame[k].constructor)
                  <=> GroupSize(frame, "constructor", frame[k].constructor) >= MinTeamResults

(***************************************************************************)
(* Claims about the records of the collection (specification Spec)         *)
(***************************************************************************)
\* a listed result whose position and points are numbers
NumericResult(result) == IsNumeral(result.position) /\ IsNumeral(result.points)

\* all_data holds a live record of that driver for that year
LiveRecordOf(year, result) ==
    \E k \in 1..Len(all_data) :
        /\ all_data[k].src = "live"
        /\ all_data[k].year = year
        /\ all_data[k].driver = result.familyName

\* C17: a listed result whose position or points is not a number is dropped
\* by itself: it gives no record, and the other results of the same race are
\* kept as live records of the year.
C17_InvalidRecordIsDroppedAlone ==
    (yi > 1 /\ lost # <<>>) =>
        \A k \in 1..Len(lost) :
            LiveRecordOf(years[yi - 1], lost[k]) <=> NumericResult(lost[k])

\* C18: in every record of either source, the live ingestion or the
\* simulator, the status is a not-finished status exactly when final_position
\* is the sentinel 99.
C18_UnclassifiedIsSentinel ==
    \A k \in 1..Len(all_data) :
        ~FinishedFlag(all_data[k].status) <=> all_data[k].final_position = DnfPosition

(***************************************************************************)
(* Claims about the derived columns (specification SpecFeatures)           *)
(***************************************************************************)
\* C19: feature derivation keeps every input record: a row whose
\* quali_position or final_position is missing gets no class label but is
\* still in the enriched rows, whose number is the number of input rows.
C19_EveryRecordIsKept ==
    report # NotRun =>
        /\ Len(Enriched) = Len(csv)
        /\ \A k \in 1..Len(csv) :
              \E j \in 1..Len(Enriched) :
                  /\ Enriched[j].constructor = csv[k].constructor
                  /\ Enriched[j].quali_position = csv[k].quali_position
                  /\ Enriched[j].final_position = csv[k].final_position
                  /\ (csv[k].quali_position = Missing =>
                          Enriched[j].quali_performance = NoLabel)
                  /\ (csv[k].final_position = Missing =>
                          Enriched[j].race_performance = NoLabel)

\* the class of the table: 1-3, 4-6, 7-10, 11-15, 16 and above
ClassOf(p) ==
    IF p <= 3 THEN 1 ELSE IF p <= 6 THEN 2 ELSE IF p <= 10 THEN 3
    ELSE IF p <= 15 THEN 4 ELSE 5

\* C20: every position from 1 to 98 gets exactly one performance class, by the
\* table 1-3 Front Row / Podium, 4-6 Top 6, 7-10 Q3 / Points, 11-15 Midfield,
\* 16 and above Back, with the same boundaries for the qualifying class and
\* the race class.
C20_OneClassPerPosition ==
    report.kind = "dashboard" =>
        \A k \in 1..Len(Enriched) :
            LET q == Enriched[k].quali_position
                f == Enriched[k].final_position
            IN /\ q \in 1..98 =>
                    Enriched[k].quali_performance =
                        <<"Front Row", "Top 6", "Q3", "Midfield", "Back">>[ClassOf(q)]
               /\ f \in 1..98 =>
                    Enriched[k].race_performance =
                        <<"Podium", "Top 6", "Points", "Midfield", "Back">>[ClassOf(f)]

C20_Witness ==
    /\ report.kind = "dashboard"
    /\ \E k \in 1..Len(Enriched) :
          /\ Enriched[k].quali_position = 3
          /\ Enriched[k].quali_performance = "Front Row"
          /\ Enriched[k].final_position = 12
          /\ Enriched[k].race_performance = "Midfield"

(***************************************************************************)
(* Claims about the simulator's algorithm (specifications SpecRatings and  *)
(* SpecSim)                                                                *)
(***************************************************************************)
\* the records a finished thread returned
Returned(w) == IF wst[w].pc = "done" THEN wst[w].out ELSE <<>>

RosterPlace(st, name) ==
    LET roster == AllDrivers(st.teams) IN
    CHOOSE i \in 1..Len(roster) : roster[i].name = name

\* two results of the race a thread is simulating whose drivers have the same
\* qualifying score
TiedResults(st, a, b) ==
    /\ a \in 1..Len(st.results)
    /\ b \in 1..Len(st.results)
    /\ a # b
    /\ st.results[a].driver.quali_score = st.results[b].driver.quali_score

\* C22: when two drivers have equal qualifying scores, the driver listed
\* earlier in the roster gets the better (lower) quali_position.
C22_TiesFollowRosterOrder ==
    \A w \in Workers :
        LET st == wst[w] IN
        \A a, b \in 1..Len(st.results) :
            (TiedResults(st, a, b)
             /\ RosterPlace(st, st.results[a].driver.name)
                    < RosterPlace(st, st.results[b].driver.name))
                => st.results[a].quali_pos < st.results[b].quali_pos

C22_Witness ==
    \E w \in Workers : \E a, b \in 1..Len(wst[w].results) :
        /\ TiedResults(wst[w], a, b)
        /\ wst[w].results[a].quali_pos < wst[w].results[b].quali_pos
        /\ wst[w].pc \in {"rec1", "rec2"}

RosterNames(year) ==
    LET tp == team_performance(year) IN
    UNION { {tp[t].drivers[d] : d \in 1..Len(tp[t].drivers)} : t \in 1..Len(tp) }

\* C23: the simulator's output holds, for each race of the calendar in
\* ascending round order, the rounds numbered consecutively from 1, exactly one
\* record per roster driver: its length is (number of races) x (number of
\* drivers) and no (round, driver) pair occurs twice.
C23_OneRecordPerRoundAndDriver ==
    \A y \in CalledYears :
        LET out == lastOut[y] IN
        /\ Len(out) = Len(races(y)) * RosterSize(y)
        /\ Rounds(out) = 1..Len(races(y))
        /\ \A k \in 1..(Len(out) - 1) : out[k].round <= out[k + 1].round
        /\ \A r \in Rounds(out) :
              {out[k].driver : k \in {j \in 1..Len(out) : out[j].round = r}} = RosterNames(y)
        /\ \A j, k \in 1..Len(out) :
              (out[j].round = out[k].round /\ out[j].driver = out[k].driver) => j = k

C23_Witness ==
    \E y \in CalledYears :
        /\ Len(lastOut[y]) = Len(races(y)) * RosterSize(y)
        /\ lastOut[y][Len(lastOut[y])].round = Len(races(y))
        /\ lastOut[y][1].round = 1
        /\ RosterSize(y) > 1

\* C24: for a year before 2025 the simulated calendar is a complete season of
\* 23 rounds, and for 2025 it is the first 8 races; the sprint rounds 11, 18,
\* 21 and 23 of a season before 2025 therefore exist in the output.
C24_FullSeasonBefore2025 ==
    \A y \in CalledYears :
        /\ y < 2025 =>
              /\ Rounds(lastOut[y]) = 1..23
              /\ \A r \in {11, 18, 21, 23} :
                    \E k \in 1..Len(lastOut[y]) :
                        lastOut[y][k].round = r /\ lastOut[y][k].has_sprint
        /\ y = 2025 => Rounds(lastOut[y]) = 1..8

\* the weight of the qualifying score, in hundredths: 0.70 + 0.05 x (year - 2023)
QualiWeight == [y \in Years |-> IF y = 2023 THEN 70 ELSE IF y = 2024 THEN 75 ELSE 80]

\* C25: the race score of a classified driver is difficulty x qualifying
\* score + (1 - difficulty) x team strength + noise with difficulty = 0.70 +
\* 0.05 x (year - 2023): the two weights sum to 1, the weight of the
\* qualifying score strictly increases with the year, and both weights lie in
\* [0,1] for 2023, 2024 and 2025.  Scores are in 1/100000, the noise in
\* thousandths within [-0.1, 0.1].
C25_RaceScoreWeights ==
    \A w \in Workers :
        LET st == wst[w]
            d == QualiWeight[st.year]
        IN /\ d \in 0..100 /\ (100 - d) \in 0..100
           /\ \A y \in Years : (y < st.year => QualiWeight[y] < d)
           /\ \A k \in 1..Len(st.results) :
                 st.results[k].status = "Finished" =>
                     \E noise \in -100..100 :
                         st.results[k].race_score =
                             d * st.results[k].driver.quali_score
                             + (100 - d) * st.results[k].driver.strength * 10
                             + noise * 100

C25_Witness ==
    \E w \in Workers : \E k \in 1..Len(wst[w].results) :
        /\ wst[w].year = 2025
        /\ wst[w].results[k].status = "Finished"
        /\ wst[w].results[k].driver.strength = 50
        /\ wst[w].results[k].driver.quali_score # 500

(***************************************************************************)
(* Claims about the sources of the collected records (specification Spec)  *)
(***************************************************************************)
\* C26: all the records of one year come from a single source: the live
\* records appended before a year's fetch failed are not left beside the
\* simulated season of that year, so no (year, round) has records of both.
C26_OneSourcePerYear ==
    \A j, k \in 1..Len(all_data) :
        all_data[j].year = all_data[k].year => all_data[j].src = all_data[k].src

\* C27: when the collection reaches its end, the dataset holds at least one
\* record for each of 2023, 2024 and 2025, whatever the live responses were,
\* a 200 response that lists no race for 2023 or 2024 included.
C27_EveryYearHasRecords ==
    cpc = "done" =>
        \A y \in Years : \E k \in 1..Len(all_data) : all_data[k].year = y

(***************************************************************************)
(* Claims about the grid-probability table (specification SpecMetrics)     *)
(***************************************************************************)
\* the entries of one outcome, in the order of the table
EntriesOf(table, category) == SelectSeq(table, LAMBDA e : e.category = category)

\* a <= b of two percentages
PctLeq(a, b) == a.num * b.den <= b.num * a.den

\* C30: the grid-probability table lists the qualifying positions in strictly
\* ascending order, each within 1..15 and at most once per outcome, every
\* entry carries its sample size, and for every listed position win rate <=
\* podium rate <= points rate, all three within [0,100].
C30_GridTableIsOrderedAndMonotone ==
    report.kind = "dashboard" =>
        LET table == report.grid_probability
            win == EntriesOf(table, "Race Win")
            podium == EntriesOf(table, "Podium Finish")
            points == EntriesOf(table, "Points Finish")
        IN /\ Len(win) + Len(podium) + Len(points) = Len(table)
           /\ Len(win) = Len(podium) /\ Len(podium) = Len(points)
           /\ \A i \in 1..Len(win) :
                 /\ win[i].position \in 1..15
                 /\ i < Len(win) => win[i].position < win[i + 1].position
                 /\ podium[i].position = win[i].position
                 /\ points[i].position = win[i].position
                 /\ \A e \in {win[i], podium[i], points[i]} :
                       /\ e.sample_size = Observations(Enriched, e.position)
                       /\ PctLeq(Number(0), e.probability)
                       /\ PctLeq(e.probability, Number(100))
                 /\ PctLeq(win[i].probability, podium[i].probability)
                 /\ PctLeq(podium[i].probability, points[i].probability)

C30_Witness ==
    /\ report.kind = "dashboard"
    /\ LET win == EntriesOf(report.grid_probability, "Race Win")
           podium == EntriesOf(report.grid_probability, "Podium Finish")
       IN /\ Len(win) >= 2
          /\ win[1].position < win[2].position
          /\ win[1].probability # podium[1].probability
          /\ win[1].probability # Number(0)

(***************************************************************************)
(* Claims about the rows the metrics are computed from (specification      *)
(* SpecFeatures)                                                           *)
(***************************************************************************)
\* the rows of the file whose two positions are numbers below 99
BothPositionsValid(row) ==
    /\ row.quali_position # Missing /\ row.quali_position < 99
    /\ row.final_position # Missing /\ row.final_position < 99

CountRows(P(_)) == Cardinality({k \in 1..Len(csv) : P(csv[k])})

OnlySimulated(rows) == rows # <<>> /\ \A k \in 1..Len(rows) : rows[k].src = "sim"

\* C29: every simulated record has grid_position = quali_position, hence its
\* position_change (grid to finish) equals its performance_delta (qualifying
\* to finish), and over a file made only of simulated records the rate of
\* significant moves and the rate of unpredictability events are equal.
C29_SimulatedGridIsQuali ==
    /\ \A k \in 1..Len(df) :
          df[k].src = "sim" =>
              /\ df[k].grid_position = df[k].quali_position
              /\ df[k].position_change = df[k].quali_to_race_change
    /\ (cpc = "done" /\ OnlySimulated(csv)) =>
          LET frame == load_and_process_data(csv) IN
          /\ \A k \in 1..Len(frame) : frame[k].position_change = frame[k].performance_delta
          /\ SignificantMoves(frame) = UnpredictabilityEvents(frame)

C29_Witness ==
    /\ cpc = "done"
    /\ OnlySimulated(csv)
    /\ \E k \in 1..Len(csv) : csv[k].year = 2025 /\ csv[k].position_change >= SignificantMove
    /\ \E k \in 1..Len(csv) : csv[k].final_position = DnfPosition

====
